---------------------------- MODULE Spec2Model ----------------------------
(***************************************************************************)
(* A model of the q3 engine's state stack (src/src/state/director.rs) and  *)
(* of its BSP map loader (src/src/obj/bsp/map.rs).                         *)
(*                                                                         *)
(* The two halves share no state.  DirectorSpec runs the Director's        *)
(* operations on a stack of state objects; MapSpec runs one Map::new load, *)
(* stage by stage, on a file whose content is chosen as it is read;        *)
(* AxisSpec applies the loader's axis fix, on its own, to any position.    *)
(***************************************************************************)
EXTENDS Integers, Sequences, FiniteSets, TLC

VARIABLES
  \* ---- Director (director.rs) ----
  states,      \* Director.states: the stack, index 1 = oldest pushed
  calls,       \* the hooks the last operation invoked, in invocation order
  op,          \* the last Director operation that ran
  dstatus,     \* "ok", or "failed" once an assertion or a fail! ended the task
  arg,         \* the last operation's arguments: <<key>>, <<id>> or <<key, id>>
  balance,     \* per state object: load() calls made on it minus unload() calls
  \* ---- Map::new (map.rs) ----
  pc,          \* the stage Map::new runs next, or "done" / "failed"
  ran,         \* the stages entered so far, in order
  header,      \* map.header: magic and the three consumed lump lengths
  raw_verts,   \* the vertex records as they stood in the file
  scaled,      \* the vertices as the read loop pushed them, before re-centering
  verts,       \* map.verts
  lump_verts,  \* the per-lump vertex array as read_verts left it
  faces,       \* map.faces
  mesh_verts,  \* map.mesh_verts
  tris,        \* map.tris
  bb,          \* map.bb
  min,         \* read_verts' local `min`, as the fold over self.verts left it
  max,         \* read_verts' local `max`, likewise
  center,      \* the center read_verts subtracted from every vertex
  log,         \* the diagnostics emitted through log_info! / log_debug!
  face_out,    \* per face triangulate has finished: what that face produced
  result,      \* what Map::new handed to its caller: nothing, or the Map
  \* ---- the axis fix on its own ----
  ax_in,       \* a file position
  ax_out,      \* that position after ax_n applications of the axis fix
  ax_n         \* how many times the fix has been applied

dvars == <<states, calls, op, dstatus, arg, balance>>
mvars == <<pc, ran, header, raw_verts, scaled, verts, lump_verts, faces, mesh_verts,
           tris, bb, min, max, center, log, face_out, result>>
avars == <<ax_in, ax_out, ax_n>>
vars == <<states, calls, op, dstatus, arg, balance, pc, ran, header, raw_verts,
          scaled, verts,
          lump_verts, faces, mesh_verts, tris, bb, min, max, center, log, face_out,
          result,
          ax_in, ax_out, ax_n>>

(***************************************************************************)
(*                              DIRECTOR                                   *)
(***************************************************************************)

\* Bounds of the Director model.
NumStates == 3      \* distinct state objects (@mut State) that exist
NumKeys == 2        \* distinct keys get_key() can return
MaxDepth == 3       \* the stack is not grown beyond this many entries

StateIds == 1 .. NumStates

\* State::get_key: a fixed key per object.  Nothing makes keys unique, so
\* two objects may share one.
KeyOf(id) == id % NumKeys

\* One hook invocation: which hook, on the state at which stack position,
\* and what it returned (load: whether it completed; unload: TRUE).
Call(hook, pos, id, ret) == [hook |-> hook, pos |-> pos, id |-> id, ret |-> ret]

\* vec.mut_iter(): positions first to last (oldest pushed first).
MutIterReversed(n) == [k \in 1 .. n |-> n + 1 - k]
MutIter(n) == [k \in 1 .. n |-> k]

\* vec.mut_rev_iter(): positions last to first (most recently pushed first).
MutRevIter(n) == [k \in 1 .. n |-> n + 1 - k]

\* The dispatch loop `for x in <order> { if x.hook(..) { break; } }` from
\* the k-th element of the order on; rets[pos] is what the state at position
\* pos returns when its hook is invoked.
RECURSIVE VisitNoBreak(_, _, _, _)
VisitNoBreak(hook, order, rets, k) ==
  IF k > Len(order) THEN <<>>
  ELSE <<Call(hook, order[k], states[order[k]], rets[order[k]])>>
         \o VisitNoBreak(hook, order, rets, k + 1)

RECURSIVE Visit(_, _, _, _)
Visit(hook, order, rets, k) ==
  IF k > Len(order) THEN <<>>
  ELSE LET pos == order[k]
           c == Call(hook, pos, states[pos], rets[pos])
       IN IF rets[pos] THEN <<c>>
          ELSE <<c>> \o Visit(hook, order, rets, k + 1)

\* A dispatch operation: assert!(self.states.len() > 0), then the loop.
\* The hook's arguments (delta, key, ...) are handed to the states unchanged
\* and decide nothing in the Director, so they are not modelled.
DispatchUnchecked(hook, order) ==
  /\ dstatus = "ok"
  /\ op' = hook
  /\ arg' = <<>>
  /\ UNCHANGED <<states, balance, dstatus>>
  /\ \E rets \in [1 .. Len(states) -> BOOLEAN] :
       calls' = Visit(hook, order, rets, 1)

Dispatch(hook, order) ==
  /\ dstatus = "ok"
  /\ op' = hook
  /\ arg' = <<>>
  /\ UNCHANGED <<states, balance>>
  /\ IF Len(states) > 0
       THEN /\ \E rets \in [1 .. Len(states) -> BOOLEAN] :
                 calls' = Visit(hook, order, rets, 1)
            /\ dstatus' = "ok"
       ELSE /\ calls' = <<>>
            /\ dstatus' = "failed"

Update == Dispatch("update", MutIter(Len(states)))
  /\ UNCHANGED <<mvars, avars>>
Render == Dispatch("render", MutIter(Len(states)))
  /\ UNCHANGED <<mvars, avars>>
KeyAction == Dispatch("key_action", MutRevIter(Len(states)))
  /\ UNCHANGED <<mvars, avars>>
KeyChar == Dispatch("key_char", MutRevIter(Len(states)))
  /\ UNCHANGED <<mvars, avars>>
MouseAction == Dispatch("mouse_action", MutRevIter(Len(states)))
  /\ UNCHANGED <<mvars, avars>>
MouseMoved == Dispatch("mouse_moved", MutRevIter(Len(states)))
  /\ UNCHANGED <<mvars, avars>>

\* How many of the calls cs invoked `hook` on the object id.
RECURSIVE Invocations(_, _, _)
Invocations(cs, hook, id) ==
  IF cs = <<>> THEN 0
  ELSE (IF Head(cs).hook = hook /\ Head(cs).id = id THEN 1 ELSE 0)
         + Invocations(Tail(cs), hook, id)

\* The load/unload balance of every object once the calls cs have been made.
Tally(cs) ==
  [id \in StateIds |->
     balance[id] + Invocations(cs, "load", id) - Invocations(cs, "unload", id)]

\* Director::push: load() first, then append.  load() may fail! (as a state
\* whose map does not load does), which ends the task before the append.
PushBeforeLoad ==
  /\ dstatus = "ok"
  /\ Len(states) < MaxDepth
  /\ \E id \in StateIds, ok \in BOOLEAN :
       /\ arg' = <<id>>
       /\ calls' = <<Call("load", Len(states) + 1, id, ok)>>
       /\ states' = Append(states, id)
       /\ dstatus' = IF ok THEN "ok" ELSE "failed"
  /\ balance' = Tally(calls')
  /\ op' = "push"
  /\ UNCHANGED <<mvars, avars>>

Push ==
  /\ dstatus = "ok"
  /\ Len(states) < MaxDepth
  /\ \E id \in StateIds, ok \in BOOLEAN :
       /\ arg' = <<id>>
       /\ calls' = <<Call("load", Len(states) + 1, id, ok)>>
       /\ IF ok THEN states' = Append(states, id) /\ dstatus' = "ok"
                ELSE states' = states /\ dstatus' = "failed"
  /\ balance' = Tally(calls')
  /\ op' = "push"
  /\ UNCHANGED <<mvars, avars>>

\* Director::pop: vec.pop() fails on an empty vector.
PopNoUnload ==
  /\ dstatus = "ok"
  /\ op' = "pop"
  /\ arg' = <<>>
  /\ calls' = <<>>
  /\ IF Len(states) > 0
       THEN /\ states' = SubSeq(states, 1, Len(states) - 1)
            /\ dstatus' = "ok"
       ELSE /\ states' = states
            /\ dstatus' = "failed"
  /\ balance' = Tally(calls')
  /\ UNCHANGED <<mvars, avars>>

Pop ==
  /\ dstatus = "ok"
  /\ op' = "pop"
  /\ arg' = <<>>
  /\ IF Len(states) > 0
       THEN /\ states' = SubSeq(states, 1, Len(states) - 1)
            /\ calls' = <<Call("unload", Len(states), states[Len(states)], TRUE)>>
            /\ dstatus' = "ok"
       ELSE /\ states' = states
            /\ calls' = <<>>
            /\ dstatus' = "failed"
  /\ balance' = Tally(calls')
  /\ UNCHANGED <<mvars, avars>>

\* vec.rposition(|s| s.get_key() == key): the last matching index, 0 for None.
PositionFirst(key) ==
  LET hits == {i \in 1 .. Len(states) : KeyOf(states[i]) = key}
  IN IF hits = {} THEN 0 ELSE CHOOSE i \in hits : \A j \in hits : j >= i
RPosition(key) ==
  LET hits == {i \in 1 .. Len(states) : KeyOf(states[i]) = key}
  IN IF hits = {} THEN 0 ELSE CHOOSE i \in hits : \A j \in hits : j <= i

\* vec.remove(i)
Remove(s, i) == SubSeq(s, 1, i - 1) \o SubSeq(s, i + 1, Len(s))

\* Director::pull
Pull ==
  /\ dstatus = "ok"
  /\ op' = "pull"
  /\ \E key \in 0 .. NumKeys - 1 :
       /\ arg' = <<key>>
       /\ LET i == RPosition(key)
          IN IF i > 0
               THEN /\ states' = Remove(states, i)
                    /\ calls' = <<Call("unload", i, states[i], TRUE)>>
               ELSE /\ states' = states
                    /\ calls' = <<>>
  /\ balance' = Tally(calls')
  /\ UNCHANGED <<dstatus>>
  /\ UNCHANGED <<mvars, avars>>

\* Director::swap: unload the old state, load the new one, store it at i.
Swap ==
  /\ dstatus = "ok"
  /\ op' = "swap"
  /\ \E key \in 0 .. NumKeys - 1, id \in StateIds, ok \in BOOLEAN :
       /\ arg' = <<key, id>>
       /\ LET i == RPosition(key)
          IN IF i > 0
               THEN /\ calls' = <<Call("unload", i, states[i], TRUE),
                                  Call("load", i, id, ok)>>
                    /\ IF ok THEN /\ states' = [states EXCEPT ![i] = id]
                                  /\ dstatus' = "ok"
                             ELSE /\ states' = states
                                  /\ dstatus' = "failed"
               ELSE /\ states' = states
                    /\ calls' = <<>>
                    /\ dstatus' = "ok"
  /\ balance' = Tally(calls')
  /\ UNCHANGED <<mvars, avars>>

\* while self.states.len() > 0 { self.states.pop().unload(); } run on the
\* stack s: the calls it makes, in order.  Each turn takes one state off s.
RECURSIVE ClearLoopBottomUp(_)
ClearLoopBottomUp(s) ==
  IF Len(s) > 0
    THEN ClearLoopBottomUp(SubSeq(s, 1, Len(s) - 1))
           \o <<Call("unload", Len(s), s[Len(s)], TRUE)>>
    ELSE <<>>

RECURSIVE ClearLoop(_)
ClearLoop(s) ==
  IF Len(s) > 0
    THEN <<Call("unload", Len(s), s[Len(s)], TRUE)>>
           \o ClearLoop(SubSeq(s, 1, Len(s) - 1))
    ELSE <<>>

\* Director::clear
Clear ==
  /\ dstatus = "ok"
  /\ op' = "clear"
  /\ arg' = <<>>
  /\ states' = <<>>
  /\ calls' = ClearLoop(states)
  /\ balance' = Tally(calls')
  /\ UNCHANGED <<dstatus>>
  /\ UNCHANGED <<mvars, avars>>

\* Director::create: an empty stack.
DirectorInit ==
  /\ states = <<>>
  /\ calls = <<>>
  /\ op = "create"
  /\ dstatus = "ok"
  /\ arg = <<>>
  /\ balance = [id \in StateIds |-> 0]

(***************************************************************************)
(*                               MAP LOADER                                *)
(***************************************************************************)

\* Bounds of the loader model.
MaxVerts == 4       \* most vertex records a file holds
MaxFaces == 2       \* most face records a file holds
MaxMeshVerts == 1   \* most mesh-vertex records a file holds

\* sys::size_of::<lump::Vertex>(): 3+2+2+3 floats and 4 colour bytes;
\* sys::size_of::<lump::Face>(): 26 four-byte fields;
\* sys::size_of::<lump::Mesh_Vert>(): one i32.  (lump.rs is not in src/.)
VertexSize == 44
FaceSize == 104
MeshVertSize == 4

\* The global size scale of read_verts.
Scale == 32

\* Positions are f32 in the code.  The model holds a position component v as
\* the integer v * Unit.  Every file coordinate below is a whole number, so
\* every value met is a whole number of 1/Unit, and an f32 operation is the
\* exact operation followed by F32's rounding.  Only finite values are
\* modelled (no NaN, no infinity).
Unit == 2 * Scale

\* An f32 keeps 24 significant bits.
F32Significand == 16777216

\* The spacing of the f32 values around a magnitude a >= 0, in 1/Unit (never
\* less than one 1/Unit: the values met need no finer grid).
RECURSIVE Quantum(_, _)
Quantum(a, q) == IF a \div q < F32Significand THEN q ELSE Quantum(a, 2 * q)
Ulp(a) == Quantum(a, 1)

\* Round to nearest, ties to even, of a magnitude a >= 0.
RoundMagnitude(a) ==
  LET q == Ulp(a)
      lo == (a \div q) * q
      r == a - lo
  IN IF 2 * r < q THEN lo
     ELSE IF 2 * r > q THEN lo + q
     ELSE IF (a \div q) % 2 = 0 THEN lo ELSE lo + q

\* The f32 nearest to the exact result n of an operation.
F32(n) == IF n >= 0 THEN RoundMagnitude(n) ELSE -RoundMagnitude(-n)

\* The f32 NaN, which a file can hold in any coordinate.  It is kept as a
\* number no finite value of the model reaches; every operation below tests
\* for it before it computes.  Infinities are not modelled.
NaN == 127 * F32Significand
IsNaN(v) == v = NaN

\* f32 `<` and `>`: false when either side is NaN.
Lt(a, b) == ~IsNaN(a) /\ ~IsNaN(b) /\ a < b
Gt(a, b) == ~IsNaN(a) /\ ~IsNaN(b) /\ a > b

\* f32 unary minus, a - b, and a / 2.0: NaN in, NaN out.
Neg(a) == IF IsNaN(a) THEN NaN ELSE 0 - a
Sub(a, b) == IF IsNaN(a) \/ IsNaN(b) THEN NaN ELSE F32(a - b)
Half(a) == IF IsNaN(a) THEN NaN ELSE a \div 2

\* cmp::min and cmp::max: `if v1 < v2 { v1 } else { v2 }` and
\* `if v1 > v2 { v1 } else { v2 }`.
Min(v1, v2) == IF Lt(v1, v2) THEN v1 ELSE v2
Max(v1, v2) == IF Gt(v1, v2) THEN v1 ELSE v2

\* result is the sequence of Maps handed to the caller: empty, or the one Map.
NoMap == <<>>
ZeroVec == <<0, 0, 0>>

\* i32 division truncates toward zero (the divisor is a positive size).
I32Div(a, b) == IF a >= 0 THEN a \div b ELSE -((-a) \div b)

\* u8 arithmetic wraps.
U8(v) == v % 256

\* The lump lengths a header may state: negative, zero, less than a record,
\* and one to `most` whole records.
LumpLengths(size, most) ==
  {-size, 0, size - 1} \cup {k * size : k \in 1 .. most}

\* 'I', 'B', 'S', 'P' as i8.
MagicTag == <<73, 66, 83, 80>>

\* The first four bytes of the file: each either the tag's byte or another.
MagicPool == {m \in [1 .. 4 -> {0, 66, 73, 80, 83}] :
                \A k \in 1 .. 4 : m[k] \in {0, MagicTag[k]}}

\* The file holds every record its header counts: fio.read's return value is
\* never looked at, and a short read is not modelled.
\*
\* The vertex records a file may hold: position in file units (Z up), colour
\* as four bytes.  Texture coordinates and the normal are read and stored but
\* never looked at, and are not modelled.
VertexPool ==
  { [position |-> <<0, 32, -64>>,  color |-> <<0, 255, 7, 0>>],
    [position |-> <<33554436, -32, 0>>,  color |-> <<255, 100, 0, 255>>],
    [position |-> <<-1, 0, NaN>>,  color |-> <<1, 0, 255, 1>>] }

\* The face records a file may hold: kind, start_vertex, num_vertices (the
\* other fields of lump::Face are never looked at).
Face(kind, start, n) == [kind |-> kind, start_vertex |-> start, num_vertices |-> n]
FacePool ==
  { Face(1, 0, 4), Face(1, 1, 3),
    Face(1, 0, 2), Face(1, 0, 0), Face(1, 1, -1),
    Face(3, 0, 4), Face(2, 0, 2) }

\* The mesh-vertex records a file may hold: one offset each.  No stage looks
\* at an offset, so one value stands for them all.
MeshVertPool == {0}

\* ------------------------------------------------------------ Map::new

\* The assertion on the magic.
MagicOkFirstThree(magic) ==
  magic[1] = MagicTag[1] /\ magic[2] = MagicTag[2] /\ magic[3] = MagicTag[3]
MagicOk(magic) ==
  /\ magic[1] = MagicTag[1]
  /\ magic[2] = MagicTag[2]
  /\ magic[3] = MagicTag[3]
  /\ magic[4] = MagicTag[4]

\* The order in which Map::new runs its stages.
StageAfterFacesFirst(stage) ==
  CASE stage = "header" -> "faces"
    [] stage = "faces" -> "verts"
    [] stage = "verts" -> "mesh_verts"
    [] stage = "mesh_verts" -> "triangulate"
    [] stage = "triangulate" -> "return"
StageAfter(stage) ==
  CASE stage = "header" -> "verts"
    [] stage = "verts" -> "faces"
    [] stage = "faces" -> "mesh_verts"
    [] stage = "mesh_verts" -> "triangulate"
    [] stage = "triangulate" -> "return"

\* assert!(num > 0) on a lump's record count.
CountOkOrZero(num) == num >= 0
CountOk(num) == num > 0

\* io::file_reader(..).unwrap(), the header read and the magic assertion.
ReadHeader ==
  /\ pc = "header"
  /\ ran' = Append(ran, "header")
  /\ \E opened \in BOOLEAN :
       IF opened
         THEN \E magic \in MagicPool,
                 vl \in LumpLengths(VertexSize, MaxVerts),
                 fl \in LumpLengths(FaceSize, MaxFaces),
                 ml \in LumpLengths(MeshVertSize, MaxMeshVerts) :
                /\ header' = [magic |-> magic, vertex_len |-> vl,
                              face_len |-> fl, mesh_vert_len |-> ml]
                /\ pc' = IF MagicOk(magic) THEN StageAfter("header") ELSE "failed"
         ELSE /\ header' = header
              /\ pc' = "failed"
  /\ UNCHANGED <<raw_verts, scaled, verts, lump_verts, faces, mesh_verts, tris, bb,
                 min, max, center, log, face_out, result>>
  /\ UNCHANGED <<dvars, avars>>

\* ------------------------------------------------------------ read_verts

\* /* BSP likes Z to be up; we like Y to be up. */
AxisFixSwapOnly(p) == <<p[1], p[3], p[2]>>
AxisFix(p) == <<p[1], p[3], Neg(p[2])>>

\* /* XXX: Color hack -- avoid pure black and pure white. */  One channel.
FixChannelNoCeiling(c) == IF c = 0 THEN U8(c + 100) ELSE c
FixChannel(c) ==
  LET floor == IF c = 0 THEN U8(c + 100) ELSE c
  IN IF floor = 255 THEN U8(floor + 256 - 100) ELSE floor

FixColor(c) == <<FixChannel(c[1]), FixChannel(c[2]), FixChannel(c[3]), 1>>

\* /* Global size scale. */  A file coordinate v over 32.0, held in 1/Unit.
ScaledXOnly(p) ==
  [k \in 1 .. 3 |-> IF IsNaN(p[k]) THEN NaN
                    ELSE IF k = 1 THEN F32(p[k] * (Unit \div Scale))
                    ELSE F32(p[k] * Unit)]
Scaled(p) ==
  [k \in 1 .. 3 |-> IF IsNaN(p[k]) THEN NaN ELSE F32(p[k] * (Unit \div Scale))]

\* One record as the loop body leaves it in `vert` before the bounds update.
LoadVertex(rec) ==
  [position |-> Scaled(AxisFix(rec.position)), color |-> FixColor(rec.color)]

\* The running bounding box after vertices 1 .. k of `loaded`: the first
\* vertex sets both corners, each later one goes through the three
\* if / else-if pairs.
RECURSIVE RunningBBIfOnly(_, _)
RunningBBIfOnly(loaded, k) ==
  IF k = 1
    THEN [top_left |-> loaded[1].position, bottom_right |-> loaded[1].position]
    ELSE LET b == RunningBBIfOnly(loaded, k - 1)
             p == loaded[k].position
             tlx == IF Lt(p[1], b.top_left[1]) THEN p[1] ELSE b.top_left[1]
             tly == IF Gt(p[2], b.top_left[2]) THEN p[2] ELSE b.top_left[2]
             tlz == IF Gt(p[3], b.top_left[3]) THEN p[3] ELSE b.top_left[3]
         IN [top_left |-> <<tlx, tly, tlz>>, bottom_right |-> b.bottom_right]

RECURSIVE RunningBB(_, _)
RunningBB(loaded, k) ==
  IF k = 1
    THEN [top_left |-> loaded[1].position, bottom_right |-> loaded[1].position]
    ELSE LET b == RunningBB(loaded, k - 1)
             p == loaded[k].position
             tlx == IF Lt(p[1], b.top_left[1]) THEN p[1] ELSE b.top_left[1]
             brx == IF Lt(p[1], b.top_left[1]) THEN b.bottom_right[1]
                    ELSE IF Gt(p[1], b.bottom_right[1]) THEN p[1]
                    ELSE b.bottom_right[1]
             tly == IF Gt(p[2], b.top_left[2]) THEN p[2] ELSE b.top_left[2]
             bry == IF Gt(p[2], b.top_left[2]) THEN b.bottom_right[2]
                    ELSE IF Lt(p[2], b.bottom_right[2]) THEN p[2]
                    ELSE b.bottom_right[2]
             tlz == IF Gt(p[3], b.top_left[3]) THEN p[3] ELSE b.top_left[3]
             brz == IF Gt(p[3], b.top_left[3]) THEN b.bottom_right[3]
                    ELSE IF Lt(p[3], b.bottom_right[3]) THEN p[3]
                    ELSE b.bottom_right[3]
         IN [top_left |-> <<tlx, tly, tlz>>, bottom_right |-> <<brx, bry, brz>>]

\* `min` and `max` on axis a after the loop over self.verts has taken its
\* first k vertices; both start at self.verts[0].
RECURSIVE FoldMin(_, _, _)
FoldMin(loaded, a, k) ==
  IF k = 0 THEN loaded[1].position[a]
  ELSE Min(FoldMin(loaded, a, k - 1), loaded[k].position[a])

RECURSIVE FoldMax(_, _, _)
FoldMax(loaded, a, k) ==
  IF k = 0 THEN loaded[1].position[a]
  ELSE Max(FoldMax(loaded, a, k - 1), loaded[k].position[a])

SeqMin(loaded, a) == FoldMin(loaded, a, Len(loaded))
SeqMax(loaded, a) == FoldMax(loaded, a, Len(loaded))

\* center = max - ((max - min) / 2.0), per axis.
CenterNoHalving(loaded) ==
  [a \in 1 .. 3 |->
     Sub(SeqMax(loaded, a), Sub(SeqMax(loaded, a), SeqMin(loaded, a)))]
Center(loaded) ==
  [a \in 1 .. 3 |->
     Sub(SeqMax(loaded, a), Half(Sub(SeqMax(loaded, a), SeqMin(loaded, a))))]

\* v.position - center
VecSub(p, q) == [k \in 1 .. 3 |-> Sub(p[k], q[k])]

ReadVerts ==
  /\ pc = "verts"
  /\ ran' = Append(ran, "verts")
  /\ LET num_verts == I32Div(header.vertex_len, VertexSize)
     IN IF CountOk(num_verts) /\ num_verts >= 1
          THEN \E recs \in [1 .. num_verts -> VertexPool] :
                 LET loaded == [i \in 1 .. num_verts |-> LoadVertex(recs[i])]
                     c == Center(loaded)
                 IN /\ raw_verts' = recs
                    /\ scaled' = loaded
                    /\ bb' = RunningBB(loaded, num_verts)
                    /\ min' = [a \in 1 .. 3 |-> SeqMin(loaded, a)]
                    /\ max' = [a \in 1 .. 3 |-> SeqMax(loaded, a)]
                    /\ center' = c
                    /\ verts' = [i \in 1 .. num_verts |->
                                   [loaded[i] EXCEPT !.position = VecSub(@, c)]]
                    /\ lump_verts' = verts'
                    /\ pc' = StageAfter("verts")
          ELSE \* the assertion fails, or self.verts[0] is out of bounds
               /\ pc' = "failed"
               /\ UNCHANGED <<raw_verts, scaled, bb, min, max, center, verts,
                              lump_verts>>
  /\ UNCHANGED <<header, faces, mesh_verts, tris, log, face_out, result>>
  /\ UNCHANGED <<dvars, avars>>

\* ------------------------------------------- read_faces, read_mesh_verts

ReadFaces ==
  /\ pc = "faces"
  /\ ran' = Append(ran, "faces")
  /\ LET num_faces == I32Div(header.face_len, FaceSize)
     IN IF CountOk(num_faces)
          THEN /\ \E fs \in [1 .. num_faces -> FacePool] : faces' = fs
               /\ pc' = StageAfter("faces")
          ELSE /\ pc' = "failed"
               /\ faces' = faces
  /\ UNCHANGED <<header, raw_verts, scaled, verts, lump_verts, mesh_verts, tris, bb,
                 min, max, center, log, face_out, result>>
  /\ UNCHANGED <<dvars, avars>>

ReadMeshVerts ==
  /\ pc = "mesh_verts"
  /\ ran' = Append(ran, "mesh_verts")
  /\ LET num_obj == I32Div(header.mesh_vert_len, MeshVertSize)
     IN IF CountOk(num_obj)
          THEN /\ \E ms \in [1 .. num_obj -> MeshVertPool] : mesh_verts' = ms
               /\ pc' = StageAfter("mesh_verts")
          ELSE /\ pc' = "failed"
               /\ mesh_verts' = mesh_verts
  /\ UNCHANGED <<header, raw_verts, scaled, verts, lump_verts, faces, tris, bb,
                 min, max, center, log, face_out, result>>
  /\ UNCHANGED <<dvars, avars>>

\* ------------------------------------------------------------ triangulate

\* self.verts[i], i counted from 0; an index outside the vector fails.
InBounds(i) == 0 <= i /\ i < Len(verts)
VertexAt(i) == verts[i + 1]

\* Vertex_PC::new(position, Vec3f::new(color.x, color.y, color.z))
VertexPC(v) == [position |-> v.position,
                color |-> <<v.color[1], v.color[2], v.color[3]>>]

\* The three indices of the i-th triangle of a fan starting at s.
FanIndicesNaive(s, i) == <<s, s + i + 1, s + i + 2>>
FanIndices(s, i) == <<s, s + i + 2, s + i + 1>>

\* for i32::range(0, n - 2) |i| { ... } from i on.  acc holds the local
\* `verts`, self.tris, the log, and whether an index has failed.
RECURSIVE EmitFanPairs(_, _, _)
EmitFanPairs(face, i, acc) ==
  IF i >= face.num_vertices - 2 THEN acc
  ELSE LET ix == FanIndices(face.start_vertex, i)
       IN IF \A k \in 1 .. 3 : InBounds(ix[k])
            THEN EmitFanPairs(face, i + 1,
                   [acc EXCEPT
                      !.verts = @ \o <<VertexAt(ix[1]), VertexAt(ix[2])>>,
                      !.tris = Append(@, <<VertexPC(VertexAt(ix[1])),
                                           VertexPC(VertexAt(ix[2])),
                                           VertexPC(VertexAt(ix[3]))>>)])
            ELSE [acc EXCEPT !.ok = FALSE]

RECURSIVE EmitFan(_, _, _)
EmitFan(face, i, acc) ==
  IF i >= face.num_vertices - 2 THEN acc
  ELSE LET ix == FanIndices(face.start_vertex, i)
       IN IF \A k \in 1 .. 3 : InBounds(ix[k])
            THEN EmitFan(face, i + 1,
                   [acc EXCEPT
                      !.verts = @ \o <<VertexAt(ix[1]), VertexAt(ix[2]),
                                       VertexAt(ix[3])>>,
                      !.tris = Append(@, <<VertexPC(VertexAt(ix[1])),
                                           VertexPC(VertexAt(ix[2])),
                                           VertexPC(VertexAt(ix[3]))>>)])
            ELSE [acc EXCEPT !.ok = FALSE]

InvalidFace(n) == [level |-> "info", msg |-> "Invalid face", arg |-> n]

\* The body of the loop over self.faces, for one face.
FaceBodyAnyKind(face, acc) ==
  IF face.num_vertices >= 3 THEN EmitFan(face, 0, acc)
  ELSE [acc EXCEPT !.log = Append(@, InvalidFace(face.num_vertices))]

FaceBodyFromTwo(face, acc) ==
  IF face.kind # 1 THEN acc
  ELSE IF face.num_vertices >= 2 THEN EmitFan(face, 0, acc)
  ELSE [acc EXCEPT !.log = Append(@, InvalidFace(face.num_vertices))]

FaceBody(face, acc) ==
  IF face.kind # 1 THEN acc
  ELSE IF face.num_vertices >= 3 THEN EmitFan(face, 0, acc)
  ELSE [acc EXCEPT !.log = Append(@, InvalidFace(face.num_vertices))]

\* for self.faces.iter().advance |face| { ... } from the j-th face on.  For
\* each face the loop finishes, acc.out records what that face added.
RECURSIVE FaceLoop(_, _)
FaceLoop(j, acc) ==
  IF j > Len(faces) THEN acc
  ELSE LET nxt == FaceBody(faces[j], acc)
       IN IF nxt.ok
            THEN FaceLoop(j + 1,
                   [nxt EXCEPT !.out = Append(@,
                      [ntris |-> Len(nxt.tris) - Len(acc.tris),
                       nverts |-> Len(nxt.verts) - Len(acc.verts),
                       logs |-> SubSeq(nxt.log, Len(acc.log) + 1, Len(nxt.log))])])
            ELSE nxt

Triangulate ==
  /\ pc = "triangulate"
  /\ ran' = Append(ran, "triangulate")
  /\ LET r == FaceLoop(1, [ok |-> TRUE, verts |-> <<>>, tris |-> tris,
                           log |-> log, out |-> <<>>])
     IN /\ tris' = r.tris
        /\ face_out' = r.out
        /\ IF r.ok
             THEN /\ verts' = r.verts
                  /\ log' = Append(r.log, [level |-> "debug",
                                           msg |-> "Trianglulated to %? faces",
                                           arg |-> Len(r.verts)])
                  /\ pc' = StageAfter("triangulate")
             ELSE /\ verts' = verts
                  /\ log' = r.log
                  /\ pc' = "failed"
  /\ UNCHANGED <<header, raw_verts, scaled, lump_verts, faces, mesh_verts, bb, min,
                 max, center,
                 result>>
  /\ UNCHANGED <<dvars, avars>>

\* The last line of Map::new: the map is handed to the caller.
ReturnBoxRecentred ==
  /\ pc = "return"
  /\ pc' = "done"
  /\ result' = <<[header |-> header, tris |-> tris, verts |-> verts,
                  faces |-> faces, mesh_verts |-> mesh_verts,
                  position |-> ZeroVec,
                  bb |-> [top_left |-> VecSub(bb.top_left, center),
                          bottom_right |-> VecSub(bb.bottom_right, center)]]>>
  /\ UNCHANGED <<ran, header, raw_verts, scaled, verts, lump_verts, faces, mesh_verts,
                 tris, bb, min, max, center, log, face_out>>
  /\ UNCHANGED <<dvars, avars>>

Return ==
  /\ pc = "return"
  /\ pc' = "done"
  /\ result' = <<[header |-> header, tris |-> tris, verts |-> verts,
                  faces |-> faces, mesh_verts |-> mesh_verts,
                  position |-> ZeroVec, bb |-> bb]>>
  /\ UNCHANGED <<ran, header, raw_verts, scaled, verts, lump_verts, faces, mesh_verts,
                 tris, bb, min, max, center, log, face_out>>
  /\ UNCHANGED <<dvars, avars>>

\* Map::new's local `map` before any stage has run.
MapInit ==
  /\ pc = "header"
  /\ ran = <<>>
  /\ header = [magic |-> <<0, 0, 0, 0>>, vertex_len |-> 0, face_len |-> 0,
               mesh_vert_len |-> 0]
  /\ raw_verts = <<>>
  /\ scaled = <<>>
  /\ verts = <<>>
  /\ lump_verts = <<>>
  /\ faces = <<>>
  /\ mesh_verts = <<>>
  /\ tris = <<>>
  /\ bb = [top_left |-> ZeroVec, bottom_right |-> ZeroVec]
  /\ min = ZeroVec
  /\ max = ZeroVec
  /\ center = ZeroVec
  /\ log = <<>>
  /\ face_out = <<>>
  /\ result = NoMap

MapNext ==
  \/ ReadHeader
  \/ ReadVerts
  \/ ReadFaces
  \/ ReadMeshVerts
  \/ Triangulate
  \/ Return

\* ------------------------------------------------- the axis fix on its own

\* Bounds of the axis-fix model.
MaxCoord == 2       \* file coordinates are drawn from -MaxCoord .. MaxCoord
MaxFixes == 4       \* the fix is applied at most this many times

AxisCoords == (0 - MaxCoord) .. MaxCoord

\* No position is under study.
AxisIdle ==
  /\ ax_in = ZeroVec
  /\ ax_out = ZeroVec
  /\ ax_n = 0

\* Any position, the fix not yet applied.
AxisInit ==
  /\ ax_in \in {<<x, y, z>> : x \in AxisCoords, y \in AxisCoords, z \in AxisCoords}
  /\ ax_out = ax_in
  /\ ax_n = 0

\* One more application of the loop body's axis fix to the position.
ApplyAxisFix ==
  /\ ax_n < MaxFixes
  /\ ax_out' = AxisFix(ax_out)
  /\ ax_n' = ax_n + 1
  /\ UNCHANGED <<ax_in, dvars, mvars>>

Init == DirectorInit /\ MapInit /\ AxisIdle

DirectorNext ==
  \/ Push
  \/ Pop
  \/ Pull
  \/ Swap
  \/ Clear
  \/ Update
  \/ Render
  \/ KeyAction
  \/ KeyChar
  \/ MouseAction
  \/ MouseMoved

DirectorSpec == Init /\ [][DirectorNext]_vars

MapSpec == Init /\ [][MapNext]_vars

AxisNext == ApplyAxisFix

\* The axis fix studied with no Director and no load under way.
AxisStart == DirectorInit /\ MapInit /\ AxisInit

AxisSpec == AxisStart /\ [][AxisNext]_vars

(***************************************************************************)
(*                       PROPERTIES OF THE DIRECTOR                        *)
(***************************************************************************)

UpdateOps == {"update", "render"}
InputOps == {"key_action", "key_char", "mouse_action", "mouse_moved"}
DispatchOps == UpdateOps \cup InputOps

C2_StopsAtFirstTrue ==
  (dstatus = "ok" /\ op \in DispatchOps) =>
    LET n == Len(states)
        m == Len(calls)
    IN /\ 1 <= m
       /\ m <= n
       /\ \A k \in 1 .. m :
            /\ calls[k].hook = op
            /\ calls[k].pos = IF op \in UpdateOps THEN k ELSE n + 1 - k
       /\ \A k \in 1 .. m - 1 : calls[k].ret = FALSE
       /\ (calls[m].ret = FALSE) => m = n

\* A dispatch on a stack of three stopped at the second state of its order:
\* the first returned false, the second true, the third was not invoked.
C2_Witness ==
  /\ op \in DispatchOps
  /\ dstatus = "ok"
  /\ Len(states) = 3
  /\ Len(calls) = 2
  /\ calls[1].ret = FALSE
  /\ calls[2].ret = TRUE


(***************************************************************************)
(*                      PROPERTIES OF THE MAP LOADER                       *)
(***************************************************************************)

AllStages == <<"header", "verts", "faces", "mesh_verts", "triangulate">>

\* triangulate has returned normally.
Triangulated == pc \in {"return", "done"}

\* A face triangulate accepts: a polygon of three or more vertices.
Accepted(f) == f.kind = 1 /\ f.num_vertices >= 3

\* The sum of (num_vertices - 2) over the accepted faces among the first j.
RECURSIVE TriangleCount(_)
TriangleCount(j) ==
  IF j = 0 THEN 0
  ELSE TriangleCount(j - 1)
         + (IF Accepted(faces[j]) THEN faces[j].num_vertices - 2 ELSE 0)

\* C3: after a successful load the vertex buffer holds 3 entries per triangle
\* and the triangle list one, where the triangle count is the sum of
\* (num_vertices - 2) over the accepted faces (kind 1, three or more
\* vertices), whatever else the face list holds; the returned Map holds the
\* same buffers.
C3_VertexBufferIsThreePerTriangle ==
  /\ Triangulated =>
       /\ Len(tris) = TriangleCount(Len(faces))
       /\ Len(verts) = 3 * TriangleCount(Len(faces))
  /\ result # NoMap =>
       /\ Len(result[1].tris) = TriangleCount(Len(faces))
       /\ Len(result[1].verts) = 3 * TriangleCount(Len(faces))

\* A load succeeded on a face list that mixes an accepted face with one that
\* is not, and produced triangles.
C3_Witness ==
  /\ pc = "done"
  /\ Len(faces) = 2
  /\ \E j \in 1 .. 2 : Accepted(faces[j])
  /\ \E j \in 1 .. 2 : ~Accepted(faces[j])
  /\ Len(tris) >= 1
  /\ Len(result[1].verts) = 3 * Len(tris)

\* The 0-based vertex indices of the triangles of one face, in emission
\* order: (s, s+i+2, s+i+1) for i = 0 .. n-3.
FanOf(f) ==
  IF Accepted(f)
    THEN [i \in 1 .. f.num_vertices - 2 |->
            <<f.start_vertex, f.start_vertex + (i - 1) + 2,
              f.start_vertex + (i - 1) + 1>>]
    ELSE <<>>

\* The fans of the first j faces, in face-list order.
RECURSIVE FansUpTo(_)
FansUpTo(j) == IF j = 0 THEN <<>> ELSE FansUpTo(j - 1) \o FanOf(faces[j])

\* C4: after triangulate, the triangles are, in face-list order and within a
\* face for i = 0 .. n-3, the loaded vertices at (s, s+i+2, s+i+1), each with
\* that vertex's position and its R, G, B; the vertex buffer holds the same
\* three loaded vertices per triangle in the same order.
C4_FanWinding ==
  Triangulated =>
    LET fans == FansUpTo(Len(faces))
    IN /\ Len(tris) = Len(fans)
       /\ Len(verts) = 3 * Len(fans)
       /\ \A t \in 1 .. Len(fans) : \A c \in 1 .. 3 :
            LET src == lump_verts[fans[t][c] + 1]
            IN /\ tris[t][c].position = src.position
               /\ tris[t][c].color = <<src.color[1], src.color[2], src.color[3]>>
               /\ verts[3 * (t - 1) + c] = src

\* A quad [A, B, C, D] with B # C and C # D was triangulated into (A, C, B)
\* and then (A, D, C).
C4_Witness ==
  /\ pc = "done"
  /\ faces = <<[kind |-> 1, start_vertex |-> 0, num_vertices |-> 4]>>
  /\ Len(lump_verts) = 4
  /\ lump_verts[2] # lump_verts[3]
  /\ lump_verts[3] # lump_verts[4]
  /\ verts = <<lump_verts[1], lump_verts[3], lump_verts[2],
               lump_verts[1], lump_verts[4], lump_verts[3]>>
  /\ Len(tris) = 2
  /\ tris[1][2].position = lump_verts[3].position
  /\ tris[2][2].position = lump_verts[4].position

\* triangulate has been entered; it either returned or failed on an index.
TriangulateRan == Len(ran) = 5
TriangulateFailed == TriangulateRan /\ pc = "failed"

\* C5 as stated: a face whose kind is not 1 adds no triangle and no vertex,
\* has a skip diagnostic logged for it, and does not fail the load.
C5_WrongKindSkippedWithLog ==
  TriangulateRan =>
    /\ \A j \in 1 .. Len(face_out) :
         faces[j].kind # 1 =>
           /\ face_out[j].ntris = 0
           /\ face_out[j].nverts = 0
           /\ Len(face_out[j].logs) >= 1
    /\ TriangulateFailed => faces[Len(face_out) + 1].kind = 1

\* C5, amended: a face whose kind is not 1 adds no triangle and no vertex
\* and is skipped without any diagnostic; it never fails the load (a failing
\* triangulate stopped at a face of kind 1), and the faces after it are still
\* processed (a triangulate that returns has gone through every face).
C5_WrongKindSkippedSilently ==
  TriangulateRan =>
    /\ \A j \in 1 .. Len(face_out) :
         faces[j].kind # 1 =>
           /\ face_out[j].ntris = 0
           /\ face_out[j].nverts = 0
           /\ face_out[j].logs = <<>>
    /\ TriangulateFailed =>
         /\ Len(face_out) < Len(faces)
         /\ faces[Len(face_out) + 1].kind = 1
    /\ Triangulated => Len(face_out) = Len(faces)
    /\ \A k \in 1 .. Len(log) : log[k].level = "info" => log[k].arg < 3

\* A load succeeded whose first face has another kind (with four vertices)
\* and whose second face was triangulated; the log holds only the final
\* debug line.
C5_Witness ==
  /\ pc = "done"
  /\ Len(faces) = 2
  /\ faces[1].kind # 1
  /\ faces[1].num_vertices >= 3
  /\ face_out[1].ntris = 0
  /\ face_out[2].ntris >= 1
  /\ Len(log) = 1

\* C6: a polygon face (kind 1) with fewer than 3 vertices, zero and negative
\* counts included, adds no triangle and no vertex, has exactly one
\* "Invalid face" diagnostic logged for it, and does not fail the load; the
\* faces after it are still processed.
C6_DegenerateFaceLoggedAndSkipped ==
  TriangulateRan =>
    /\ \A j \in 1 .. Len(face_out) :
         (faces[j].kind = 1 /\ faces[j].num_vertices < 3) =>
           /\ face_out[j].ntris = 0
           /\ face_out[j].nverts = 0
           /\ face_out[j].logs = <<[level |-> "info", msg |-> "Invalid face",
                                    arg |-> faces[j].num_vertices]>>
    /\ TriangulateFailed =>
         /\ Len(face_out) < Len(faces)
         /\ faces[Len(face_out) + 1].num_vertices >= 3
    /\ Triangulated => Len(face_out) = Len(faces)

\* A load succeeded whose first face is a polygon with zero or fewer
\* vertices, logged as invalid, and whose second face was triangulated.
C6_Witness ==
  /\ pc = "done"
  /\ Len(faces) = 2
  /\ faces[1].kind = 1
  /\ faces[1].num_vertices <= 0
  /\ Len(face_out[1].logs) = 1
  /\ face_out[2].ntris >= 1
  /\ log[1].msg = "Invalid face"

\* The length the header states for a consumed lump, and its record size.
LumpLen(stage) ==
  CASE stage = "verts" -> header.vertex_len
    [] stage = "faces" -> header.face_len
    [] stage = "mesh_verts" -> header.mesh_vert_len
RecordSize(stage) ==
  CASE stage = "verts" -> VertexSize
    [] stage = "faces" -> FaceSize
    [] stage = "mesh_verts" -> MeshVertSize

\* The stages Map::new runs after a lump's stage.
StagesAfter(stage) ==
  CASE stage = "verts" -> {"faces", "mesh_verts", "triangulate"}
    [] stage = "faces" -> {"mesh_verts", "triangulate"}
    [] stage = "mesh_verts" -> {"triangulate"}

HasRun(stage) == \E k \in 1 .. Len(ran) : ran[k] = stage

\* C7: when lump length / record size is zero or negative for the Vertices,
\* Faces or MeshVerts lump, the load fails in that lump's stage if it gets
\* there: the stage is the last one entered, it stores no record, no later
\* stage ever runs and no Map is returned.
C7_NonPositiveCountFailsLoad ==
  \A stage \in {"verts", "faces", "mesh_verts"} :
    (I32Div(LumpLen(stage), RecordSize(stage)) <= 0) =>
      /\ result = NoMap
      /\ pc \notin {"return", "done"}
      /\ \A later \in StagesAfter(stage) : ~HasRun(later) /\ pc # later
      /\ HasRun(stage) =>
           /\ pc = "failed"
           /\ ran[Len(ran)] = stage
           /\ stage = "verts" => verts = <<>>
           /\ stage = "faces" => faces = <<>>
           /\ stage = "mesh_verts" => mesh_verts = <<>>

\* A load whose vertex lump was fine failed in the face stage on a face lump
\* of length zero.
C7_Witness ==
  /\ pc = "failed"
  /\ ran = <<"header", "verts", "faces">>
  /\ header.face_len = 0
  /\ Len(verts) >= 1
  /\ faces = <<>>
  /\ result = NoMap

\* C8: when any of the first four bytes read differs from 'I','B','S','P',
\* the load fails right after the header read: no lump is read, triangulate
\* does not run and no Map is returned.
C8_BadMagicFailsAfterHeader ==
  (Len(ran) >= 1 /\ \E k \in 1 .. 4 : header.magic[k] # <<73, 66, 83, 80>>[k]) =>
    /\ pc = "failed"
    /\ ran = <<"header">>
    /\ raw_verts = <<>>
    /\ verts = <<>>
    /\ faces = <<>>
    /\ mesh_verts = <<>>
    /\ tris = <<>>
    /\ face_out = <<>>
    /\ result = NoMap

\* A file whose magic differs from the tag in its fourth byte only, and whose
\* three lumps are all well-formed, failed after the header read.
C8_Witness ==
  /\ pc = "failed"
  /\ ran = <<"header">>
  /\ header.magic = <<73, 66, 83, 0>>
  /\ header.vertex_len >= VertexSize
  /\ header.face_len >= FaceSize
  /\ header.mesh_vert_len >= MeshVertSize

\* C9: the stages entered are always an initial part of header, verts,
\* faces, mesh_verts, triangulate; a stage is entered only when the one
\* before it has completed (the load then waits at the next stage, or has
\* failed in the last one entered); a Map is returned only after all five
\* have succeeded, and it is the fully populated one; a failed load returns
\* nothing.
C9_StagesRunInOrder ==
  /\ Len(ran) <= 5
  /\ \A k \in 1 .. Len(ran) : ran[k] = AllStages[k]
  /\ pc \in {"failed", "done", "return"} \cup {AllStages[k] : k \in 1 .. 5}
  /\ pc \in {"return", "done"} => Len(ran) = 5
  /\ \A k \in 1 .. 5 : pc = AllStages[k] => Len(ran) = k - 1
  /\ pc = "failed" => (Len(ran) >= 1 /\ result = NoMap)
  /\ result # NoMap =>
       /\ pc = "done"
       /\ Len(ran) = 5
       /\ Len(result) = 1
       /\ result[1].header = header
       /\ result[1].verts = verts
       /\ result[1].faces = faces
       /\ result[1].mesh_verts = mesh_verts
       /\ result[1].tris = tris
       /\ result[1].bb = bb
       /\ Len(result[1].faces) >= 1
       /\ Len(result[1].mesh_verts) >= 1
  /\ pc = "done" => result # NoMap

\* A load ran all five stages and returned a Map with triangles in it.
C9_Witness ==
  /\ pc = "done"
  /\ ran = AllStages
  /\ Len(result) = 1
  /\ Len(result[1].tris) >= 1

\* What the colour hack is to do to one channel.
Fix(v) == IF v = 0 THEN 100 ELSE IF v = 255 THEN 155 ELSE v

\* C10: every loaded vertex has R, G, B equal to Fix of the file's R, G, B
\* and alpha equal to 1 whatever the file's alpha; no channel is left 0 or
\* 255; and the channel fix gives Fix(v) for every byte v in 0 .. 255, so no
\* byte arithmetic wraps.
C10_ColourFix ==
  /\ pc = "faces" => \A v \in 0 .. 255 : FixChannel(v) = Fix(v)
  /\ Len(lump_verts) = Len(raw_verts)
  /\ \A i \in 1 .. Len(lump_verts) :
       /\ \A c \in 1 .. 3 :
            /\ lump_verts[i].color[c] = Fix(raw_verts[i].color[c])
            /\ lump_verts[i].color[c] \notin {0, 255}
       /\ lump_verts[i].color[4] = 1
  /\ \A i \in 1 .. Len(verts) :
       /\ \A c \in 1 .. 3 : verts[i].color[c] \notin {0, 255}
       /\ verts[i].color[4] = 1

\* A vertex stored in the file with colour (0, 255, 7, 0) was loaded with
\* colour (100, 155, 7, 1), and one with alpha 255 with alpha 1.
C10_Witness ==
  /\ Len(lump_verts) >= 2
  /\ raw_verts[1].color = <<0, 255, 7, 0>>
  /\ lump_verts[1].color = <<100, 155, 7, 1>>
  /\ raw_verts[2].color[4] = 255
  /\ lump_verts[2].color[4] = 1

\* The file coordinate x over 32, in the model's 1/Unit; NaN stays NaN.
Over32(x) == IF x = NaN THEN NaN ELSE x * (Unit \div 32)

\* C11: a vertex whose file position is (x, y, z) is held, before
\* re-centering, at (x/32, z/32, -y/32), a NaN coordinate staying NaN; its
\* colour there is the fixed
\* colour, which neither the axis fix nor the scale has touched, and
\* re-centering leaves it as it is.
C11_PreCenteringPosition ==
  /\ Len(scaled) = Len(raw_verts)
  /\ \A i \in 1 .. Len(scaled) :
       LET r == raw_verts[i] IN
       /\ scaled[i].position =
            <<Over32(r.position[1]), Over32(r.position[3]),
              IF r.position[2] = NaN THEN NaN ELSE Over32(0 - r.position[2])>>
       /\ scaled[i].color = <<Fix(r.color[1]), Fix(r.color[2]), Fix(r.color[3]), 1>>
       /\ lump_verts[i].color = scaled[i].color

\* The file position (0, 32, -64) was held at (0, -2, -1) before
\* re-centering.
C11_Witness ==
  /\ Len(scaled) >= 2
  /\ raw_verts[1].position = <<0, 32, -64>>
  /\ scaled[1].position = <<0, -2 * Unit, -1 * Unit>>

(***************************************************************************)
(*               PROPERTIES OF THE DIRECTOR'S STACK OPERATIONS             *)
(***************************************************************************)

\* The objects in a stack, how often one is in it, and whether none is in it
\* twice.
InStack(s) == {s[i] : i \in 1 .. Len(s)}
Occurrences(s, id) == Cardinality({i \in 1 .. Len(s) : s[i] = id})
Distinct(s) == \A i, j \in 1 .. Len(s) : s[i] = s[j] => i = j

\* The stack positions whose state answers to the key.
Matches(s, key) == {i \in 1 .. Len(s) : KeyOf(s[i]) = key}

\* C15: a step in which load() failed leaves the stack as it was, so the
\* state that failed to load is not put on it, and ends the task, after
\* which no operation runs.
C15_FailedLoadKeepsStateOffStack ==
  [][/\ dstatus = "ok"
     /\ \A k \in 1 .. Len(calls') :
          (calls'[k].hook = "load" /\ ~calls'[k].ret) =>
            /\ states' = states
            /\ dstatus' = "failed"
            /\ k = Len(calls')]_vars

\* swap found the state to replace and unloaded it, the new state's load()
\* failed, and the new state is nowhere on the stack.
C15_Witness ==
  /\ op = "swap"
  /\ dstatus = "failed"
  /\ Len(calls) = 2
  /\ calls[2].hook = "load"
  /\ ~calls[2].ret
  /\ Len(states) >= 2
  /\ calls[2].id \notin InStack(states)

\* C16: after successful operations every object's load() calls exceed its
\* unload() calls by the number of times it is on the stack: by one for an
\* object on the stack, by none for one that was removed.  While no object
\* is on the stack twice, an operation calls unload() once on each object
\* it takes off the stack and on no other, and load() once on each object it
\* puts on and on no other.
C16_LoadUnloadBalance ==
  [][dstatus' = "ok" =>
       /\ \A id \in StateIds : balance'[id] = Occurrences(states', id)
       /\ (Distinct(states) /\ Distinct(states')
             /\ (op' = "swap" /\ calls' # <<>> => arg'[2] \notin InStack(states))) =>
            \A id \in StateIds :
              /\ Invocations(calls', "unload", id) =
                   IF id \in InStack(states) \ InStack(states') THEN 1 ELSE 0
              /\ Invocations(calls', "load", id) =
                   IF id \in InStack(states') \ InStack(states) THEN 1 ELSE 0]_vars

\* A successful swap on a stack of two distinct objects put a third in the
\* place of one: the replaced object has as many unload() as load() calls,
\* the two on the stack one load() more.
C16_Witness ==
  /\ op = "swap"
  /\ dstatus = "ok"
  /\ Len(calls) = 2
  /\ Len(states) = 2
  /\ Distinct(states)
  /\ calls[1].id \notin InStack(states)
  /\ balance[calls[1].id] = 0
  /\ \A i \in 1 .. 2 : balance[states[i]] = 1

\* What pull and swap do to the stack when position i is the one they act
\* on.
PulledAt(i) ==
  /\ calls' = <<Call("unload", i, states[i], TRUE)>>
  /\ Len(states') = Len(states) - 1
  /\ \A j \in 1 .. Len(states') :
       states'[j] = IF j < i THEN states[j] ELSE states[j + 1]
SwappedAt(i, new) ==
  /\ Len(calls') = 2
  /\ calls'[1] = Call("unload", i, states[i], TRUE)
  /\ calls'[2].hook = "load"
  /\ calls'[2].id = new
  /\ Len(states') = Len(states)
  /\ calls'[2].ret =>
       \A j \in 1 .. Len(states) : states'[j] = IF j = i THEN new ELSE states[j]

\* C17: pull(key) and swap(key, new) act on the last position whose state
\* has the key.  pull unloads and removes that state and keeps the others in
\* order; swap unloads the old state, then loads the new one and stores it
\* at the same position, the length unchanged.  When no state has the key
\* the stack is unchanged and no hook is called.
C17_PullSwapLastMatch ==
  [][/\ op' = "pull" =>
          LET hits == Matches(states, arg'[1])
          IN IF hits = {} THEN states' = states /\ calls' = <<>>
             ELSE \E i \in hits : (\A j \in hits : j <= i) /\ PulledAt(i)
     /\ op' = "swap" =>
          LET hits == Matches(states, arg'[1])
          IN IF hits = {}
               THEN states' = states /\ calls' = <<>> /\ dstatus' = "ok"
               ELSE \E i \in hits : (\A j \in hits : j <= i)
                                    /\ SwappedAt(i, arg'[2])]_vars

\* pull(1) on the stack <<1, 2, 3>>, where the objects 1 and 3 have key 1,
\* removed object 3 from the top and left object 1 where it was.
C17_Witness ==
  /\ op = "pull"
  /\ arg = <<1>>
  /\ calls = <<Call("unload", 3, 3, TRUE)>>
  /\ states = <<1, 2>>
  /\ KeyOf(1) = 1

\* C18: clear() ends with the stack empty, having called unload() once on
\* the state at each position, from the top position down to the first, and
\* nothing else.
C18_ClearUnloadsTopDown ==
  [][op' = "clear" =>
       /\ states' = <<>>
       /\ dstatus' = "ok"
       /\ Len(calls') = Len(states)
       /\ \A k \in 1 .. Len(states) :
            calls'[k] = Call("unload", Len(states) + 1 - k,
                             states[Len(states) + 1 - k], TRUE)]_vars

\* clear() emptied a stack of three: the state at position 3 was unloaded
\* first and the one at position 1 last.
C18_Witness ==
  /\ op = "clear"
  /\ states = <<>>
  /\ Len(calls) = 3
  /\ calls[1].pos = 3
  /\ calls[2].pos = 2
  /\ calls[3].pos = 1
  /\ calls[1].id # calls[3].id

\* C19: a dispatch operation leaves the stack as it found it; run on an
\* empty stack it fails and has invoked no hook, run on a non-empty stack it
\* does not fail and has invoked at least one.
C19_DispatchNeedsNonEmptyStack ==
  op \in DispatchOps =>
    /\ states = <<>> => (dstatus = "failed" /\ calls = <<>>)
    /\ states # <<>> => (dstatus = "ok" /\ Len(calls) >= 1)

\* key_char was dispatched on an empty stack whose objects had been loaded
\* and unloaded before, and failed without a hook call.
C19_Witness ==
  /\ op = "key_char"
  /\ states = <<>>
  /\ dstatus = "failed"
  /\ calls = <<>>
  /\ \A id \in StateIds : balance[id] = 0

(***************************************************************************)
(*                   FURTHER PROPERTIES OF THE MAP LOADER                  *)
(***************************************************************************)

Abs(n) == IF n >= 0 THEN n ELSE 0 - n

\* The least and the greatest coordinate of a non-empty vertex sequence on
\* axis a.
Lo(vs, a) ==
  CHOOSE m \in {vs[i].position[a] : i \in 1 .. Len(vs)} :
    \A i \in 1 .. Len(vs) : m <= vs[i].position[a]
Hi(vs, a) ==
  CHOOSE m \in {vs[i].position[a] : i \in 1 .. Len(vs)} :
    \A i \in 1 .. Len(vs) : m >= vs[i].position[a]

\* The greater magnitude of the two extremes of the pre-centering positions
\* on axis a, and whether the extremes lie close enough together for every
\* f32 operation of the re-centering on that axis to be exact.
Extent(a) ==
  LET hi == Abs(Hi(scaled, a))
      lo == Abs(Lo(scaled, a))
  IN IF hi >= lo THEN hi ELSE lo
ExactAxis(a) == 2 * Extent(a) < F32Significand

\* No pre-centering position is NaN on axis a.
FiniteAxis(a) == \A i \in 1 .. Len(scaled) : scaled[i].position[a] # NaN

\* C13 as stated (for positions that are numbers): the subtracted center is
\* exactly (max + min) / 2 of the pre-centering positions on every axis, and
\* after the subtraction min + max is exactly 0 on every axis.
C13_ExactMidpointAndSymmetry ==
  Len(scaled) >= 1 =>
    \A a \in {b \in 1 .. 3 : FiniteAxis(b)} :
      /\ 2 * center[a] = Hi(scaled, a) + Lo(scaled, a)
      /\ Lo(lump_verts, a) + Hi(lump_verts, a) = 0

\* C13: when read_verts has just loaded a vertex set, on an axis where every
\* position is a number the subtracted center is the f32 value of
\* max - (max - min) / 2.  It is (max + min) / 2, and min + max after the
\* subtraction is 0, on every axis where no f32 operation rounds; in general
\* the center lies within one unit in the last place of the larger extreme
\* of (max + min) / 2, and min + max after the subtraction within four such
\* units of 0.
C13_MidpointWithinRounding ==
  pc = "faces" =>
    \A a \in {b \in 1 .. 3 : FiniteAxis(b)} :
      LET hi == Hi(scaled, a)
          lo == Lo(scaled, a)
          ulp == Ulp(Extent(a))
          sum == Lo(lump_verts, a) + Hi(lump_verts, a)
      IN /\ Abs(2 * center[a] - (hi + lo)) <= 2 * ulp
         /\ Abs(sum) <= 4 * ulp
         /\ ExactAxis(a) =>
               /\ 2 * center[a] = hi + lo
               /\ sum = 0
               /\ \A i \in 1 .. Len(scaled) :
                    lump_verts[i].position[a] = scaled[i].position[a] - center[a]

\* Two vertices were loaded whose X extremes are far enough apart for the
\* center to be rounded off the midpoint, while on Z the center is the
\* midpoint and the re-centred extremes are symmetric and not zero.
C13_Witness ==
  /\ Len(scaled) = 2
  /\ 2 * center[1] # Hi(scaled, 1) + Lo(scaled, 1)
  /\ Lo(lump_verts, 1) + Hi(lump_verts, 1) # 0
  /\ FiniteAxis(1)
  /\ FiniteAxis(3)
  /\ 2 * center[3] = Hi(scaled, 3) + Lo(scaled, 3)
  /\ Hi(lump_verts, 3) > 0
  /\ Lo(lump_verts, 3) = 0 - Hi(lump_verts, 3)

\* The running box's least and greatest coordinate on axis a: top_left
\* holds the least X and the greatest Y and Z.
BoxMin(b, a) == IF a = 1 THEN b.top_left[a] ELSE b.bottom_right[a]
BoxMax(b, a) == IF a = 1 THEN b.bottom_right[a] ELSE b.top_left[a]

\* The pre-centering vertices of a file holding the records recs.
Loaded(recs) == [i \in 1 .. Len(recs) |-> LoadVertex(recs[i])]

WithinBox(v, a, slack) ==
  /\ BoxMin(result[1].bb, a) - slack <= v.position[a] + center[a]
  /\ v.position[a] + center[a] <= BoxMax(result[1].bb, a) + slack

\* C20 as stated (for positions that are numbers): in the returned Map every
\* vertex's position plus the subtracted center lies within the bounding box
\* on every axis.
C20_VerticesPlusCenterInsideBox ==
  pc = "done" =>
    \A a \in {b \in 1 .. 3 : FiniteAxis(b)} :
      \A i \in 1 .. Len(result[1].verts) : WithinBox(result[1].verts[i], a, 0)

\* C20: the bounding box is the running box of the pre-centering positions
\* as read_verts left it, and it is returned unchanged.  On every axis where
\* all positions are numbers, top_left holds the least X and the greatest Y
\* and Z and bottom_right the greatest X and the least Y and Z of those
\* positions; a returned vertex's position plus the subtracted center lies
\* within one unit in the last place (of the larger extreme) of the box, and
\* inside it when no f32 operation rounds; and the box is centred on the
\* origin only if the center is zero.
C20_BoxIsOfPreCenteringPositions ==
  /\ pc = "faces" =>
       /\ bb = RunningBB(scaled, Len(scaled))
       /\ \A a \in {b \in 1 .. 3 : FiniteAxis(b)} :
            /\ BoxMin(bb, a) = Lo(scaled, a)
            /\ BoxMax(bb, a) = Hi(scaled, a)
  /\ Len(scaled) >= 1 =>
       \A a \in {b \in 1 .. 3 : FiniteAxis(b)} :
         /\ BoxMin(bb, a) = min[a]
         /\ BoxMax(bb, a) = max[a]
         /\ BoxMin(bb, a) + BoxMax(bb, a) = 0 => center[a] = 0
         /\ (ExactAxis(a) /\ center[a] = 0) => BoxMin(bb, a) + BoxMax(bb, a) = 0
  /\ pc = "done" =>
       /\ result[1].bb = bb
       /\ \A a \in {b \in 1 .. 3 : FiniteAxis(b)} :
            LET exact == ExactAxis(a)
                slack == IF exact THEN 0 ELSE Ulp(Extent(a))
            IN \A i \in 1 .. Len(result[1].verts) :
                 WithinBox(result[1].verts[i], a, slack)

\* A Map was returned whose box is not centred on the origin on X, and one
\* of whose vertices, moved back by the center, falls just below the box on
\* X because the subtraction was rounded; on Z the box is centred on the
\* origin and the center is zero.
C20_Witness ==
  /\ pc = "done"
  /\ Len(result) = 1
  /\ Len(result[1].verts) >= 3
  /\ result[1].bb = bb
  /\ FiniteAxis(1)
  /\ center[1] # 0
  /\ \E i \in 1 .. Len(result[1].verts) :
       result[1].verts[i].position[1] + center[1] < bb.top_left[1]
  /\ center[3] = 0
  /\ bb.top_left[3] > 0
  /\ bb.top_left[3] + bb.bottom_right[3] = 0

(***************************************************************************)
(*                       PROPERTIES OF THE AXIS FIX                        *)
(***************************************************************************)

\* C12 as stated: the axis fix applied twice to a position returns the
\* original position.
C12_TwiceIsIdentity ==
  ax_n = 2 => ax_out = ax_in

\* C12: one application maps (x, y, z) to (x, z, -y); two map it to
\* (x, -y, -z), which is the original only when y = z = 0; four return the
\* original position.
C12_TwiceNegatesYAndZ ==
  LET x == ax_in[1]
      y == ax_in[2]
      z == ax_in[3]
  IN /\ ax_n = 1 => ax_out = <<x, z, 0 - y>>
     /\ ax_n = 2 => /\ ax_out = <<x, 0 - y, 0 - z>>
                    /\ (ax_out = ax_in) <=> (y = 0 /\ z = 0)
     /\ ax_n = 4 => ax_out = ax_in

\* The fix applied twice to (1, 2, -1) gave (1, -2, 1).
C12_Witness ==
  /\ ax_n = 2
  /\ ax_in = <<1, 2, -1>>
  /\ ax_out = <<1, -2, 1>>

=============================================================================
